---- MODULE Spec2Model ----
(***************************************************************************)
(* Retro Task RPG (src/main.py): the game state engine.                    *)
(*                                                                         *)
(* The persistent record `state` is the dict kept in st.session_state.     *)
(* DEFAULT_STATE is the module-level dict; load_state and respawn hand out *)
(* DEFAULT_STATE.copy(), a SHALLOW copy, so the nested dicts and lists of  *)
(* the returned state are the very objects of DEFAULT_STATE.  `shared`     *)
(* records that aliasing: while it is TRUE every mutation of state is a    *)
(* mutation of DEFAULT_STATE as well.                                      *)
(*                                                                         *)
(* Time: one wall clock `now`, in whole seconds.  Dates are now \div DAY,  *)
(* ISO weeks are blocks of seven days starting on day 0 (a Monday).        *)
(* Optional values (None) are the empty tuple, Some(x) is <<x>>.           *)
(* Floats of the source are exact rationals <<numerator, denominator>>.    *)
(*                                                                         *)
(* `files` holds the two save files (LOCAL_SAVE_PATH, CLOUD_SAVE_PATH) and *)
(* whether the platform has a cloud path at all.                           *)
(***************************************************************************)
EXTENDS Integers, Sequences, FiniteSets, TLC

VARIABLES state, DEFAULT_STATE, shared, now, op, files

vars == <<state, DEFAULT_STATE, shared, now, op, files>>

(***************************************************************************)
(* Bounds of the model.                                                    *)
(***************************************************************************)
MaxLogs == 3
MaxDay == 2
MaxGap == 2
MaxSecs == 310
MaxStreak == 14
MaxXpLevel == 3
MaxRuns == 4

(***************************************************************************)
(* Program constants.                                                      *)
(***************************************************************************)
VERSION == "7.9"
OLD_VERSION == "7.8"
LEVEL_MINUTES_BONUS == 5
DAY == 86400
GAME_OVER_DAYS == 7
BASE_XP == 10
STREAK_BONUS_XP == 20
STREAK_BONUS_MINUTES == 5
POMODORO_DEFAULT == 25
XP_FOR_NEXT_DEFAULT == 100

None == << >>
Some(x) == <<x>>

\* the four difficulty labels ("Hoellenfeuer" is the source's "Hollenfeuer with o-umlaut")
Difficulties == {"Noob", "Normal", "Hardcore", "Hoellenfeuer"}

\* DIFF_MULTIPLIER: 1.0, 1.5, 2.5, 4.0 as exact fractions
DIFF_MULTIPLIER ==
  [d \in Difficulties |->
     CASE d = "Noob" -> <<1, 1>>
       [] d = "Normal" -> <<3, 2>>
       [] d = "Hardcore" -> <<5, 2>>
       [] d = "Hoellenfeuer" -> <<4, 1>>]

\* HARDCORE_GLOBAL_BONUS: 1.25
HARDCORE_GLOBAL_BONUS == <<5, 4>>

LEVEL_BADGES ==
  << <<5, "Bronze">>, <<10, "Silver">>, <<20, "Gold">>,
     <<30, "Platinum">>, <<40, "Diamond">> >>

MILESTONES == <<10, 25, 50, 100, 200>>

DailyNames == {"Power-Up Workout", "Deep Focus 60"}
WeeklyNames == {"NoPo Weekly", "Project Push"}

DailyQuests ==
  [q \in DailyNames |->
     IF q = "Power-Up Workout"
       THEN [xp |-> 30, minutes |-> 5, done_on |-> None]
       ELSE [xp |-> 40, minutes |-> 10, done_on |-> None]]

WeeklyQuests ==
  [q \in WeeklyNames |->
     IF q = "NoPo Weekly"
       THEN [xp |-> 60, minutes |-> 15, done_on_week |-> None]
       ELSE [xp |-> 80, minutes |-> 20, done_on_week |-> None]]

\* the literal of DEFAULT_STATE, evaluated when the module is executed at time t
DefaultState(t) ==
  [meta |-> [version |-> VERSION, created |-> t, last_opened |-> t,
             hardcore |-> FALSE, dead |-> FALSE],
   player |-> [name |-> "Player One", level |-> 1, xp |-> 0,
               xp_for_next |-> XP_FOR_NEXT_DEFAULT, streak_days |-> 0,
               last_checkin |-> None, minutes_bank |-> 0,
               quotes_level_index |-> 0],
   timers |-> [pomodoro_length |-> POMODORO_DEFAULT, pomodoro_start |-> None,
               pomodoro_running |-> FALSE, pomodoro_paused_seconds |-> 0,
               session_start |-> None, session_running |-> FALSE,
               session_target_minutes |-> 0, session_spent_seconds |-> 0],
   tasks |-> [log |-> << >>, counts |-> [d \in Difficulties |-> 0]],
   quests |-> [daily |-> DailyQuests, weekly |-> WeeklyQuests],
   achievements |-> [level_badges |-> << >>, special |-> << >>],
   logs |-> << >>]

(***************************************************************************)
(* Arithmetic helpers.                                                     *)
(***************************************************************************)
Max(a, b) == IF a >= b THEN a ELSE b

\* Python 3 round() of the non-negative fraction num/den: nearest integer,
\* a tie goes to the even neighbour
PyRound(num, den) ==
  LET q == num \div den
      r == num % den
  IN IF 2 * r < den THEN q
     ELSE IF 2 * r > den THEN q + 1
     ELSE IF q % 2 = 0 THEN q ELSE q + 1

\* the threshold growth rounded down
CeilGrow_floor(x) == (5 * x) \div 4

\* int(math.ceil(x * 1.25)) for an integer x (x * 1.25 is exact in binary)
CeilGrow(x) == (5 * x + 3) \div 4

\* date.today() / today_str(): the calendar day of the clock
today_str(t) == t \div DAY

\* week_id(): ISO year and week of the clock's day
week_id(t) == (t \div DAY) \div 7

\* the difference taken the wrong way round, from now back to the stamp
seconds_since_reversed(iso, t) == IF iso = None THEN 0 ELSE iso[1] - t

\* seconds_since(iso): 0 for None, else whole seconds from the stamp to now
seconds_since(iso, t) == IF iso = None THEN 0 ELSE t - iso[1]

SeqToSet(s) == {s[i] : i \in 1..Len(s)}

(***************************************************************************)
(* Game mechanics (pure functions of the state record and the clock).      *)
(***************************************************************************)
add_log(s, t, text) ==
  [s EXCEPT !.logs = Append(@, [ts |-> t, text |-> text])]

\* a badge that is only awarded one level late
BadgeEarned_late(lvl, thresh) == lvl > thresh

\* `lvl >= thresh`
BadgeEarned(lvl, thresh) == lvl >= thresh

RECURSIVE BadgeLoop(_, _, _, _)
BadgeLoop(s, t, have, i) ==
  IF i > Len(LEVEL_BADGES) THEN s
  ELSE LET thresh == LEVEL_BADGES[i][1]
           name == LEVEL_BADGES[i][2]
       IN IF BadgeEarned(s.player.level, thresh) /\ name \notin have
            THEN BadgeLoop(
                   add_log([s EXCEPT !.achievements.level_badges = Append(@, name)],
                           t, <<"Badge freigeschaltet", name>>),
                   t, have, i + 1)
            ELSE BadgeLoop(s, t, have, i + 1)

maybe_add_level_badge(s, t) ==
  BadgeLoop(s, t, SeqToSet(s.achievements.level_badges), 1)

\* a single level-up per award, however large
LevelLoop_once(p, leveled) ==
  IF p.xp >= p.xp_for_next
    THEN [player |-> [p EXCEPT !.xp = @ - p.xp_for_next,
                               !.level = @ + 1,
                               !.xp_for_next = (5 * @ + 3) \div 4,
                               !.minutes_bank = @ + LEVEL_MINUTES_BONUS],
          leveled |-> 1]
    ELSE [player |-> p, leveled |-> 0]

\* the level-up loop entered only when xp exceeds the threshold
LevelUpCond_strict(xp, xp_for_next) == xp > xp_for_next

\* the test of the level-up loop
LevelUpCond(xp, xp_for_next) == xp >= xp_for_next

RECURSIVE LevelLoop(_, _)
LevelLoop(p, leveled) ==
  IF LevelUpCond(p.xp, p.xp_for_next)
    THEN LevelLoop([p EXCEPT !.xp = @ - p.xp_for_next,
                             !.level = @ + 1,
                             !.xp_for_next = CeilGrow(@),
                             !.minutes_bank = @ + LEVEL_MINUTES_BONUS],
                   leveled + 1)
    ELSE [player |-> p, leveled |-> leveled]

add_xp(s, amount, t) ==
  IF amount <= 0 THEN s
  ELSE LET r == LevelLoop([s.player EXCEPT !.xp = @ + amount], 0)
           s1 == [s EXCEPT !.player = r.player]
       IN IF r.leveled > 0
            THEN maybe_add_level_badge(
                   add_log(s1, t, <<"Level-Up", r.leveled,
                                    LEVEL_MINUTES_BONUS * r.leveled>>), t)
            ELSE s1

RECURSIVE SumCounts(_, _)
SumCounts(counts, ds) ==
  IF ds = {} THEN 0
  ELSE LET d == CHOOSE x \in ds : TRUE
       IN counts[d] + SumCounts(counts, ds \ {d})

\* a milestone that is only reached one task late
MilestoneReached_late(total_tasks, m) == total_tasks > m

\* `total_tasks >= m`
MilestoneReached(total_tasks, m) == total_tasks >= m

RECURSIVE MilestoneLoop(_, _, _, _)
MilestoneLoop(s, t, total_tasks, i) ==
  IF i > Len(MILESTONES) THEN s
  ELSE LET m == MILESTONES[i]
           name == <<"Grinder", m>>
       IN IF MilestoneReached(total_tasks, m)
               /\ name \notin SeqToSet(s.achievements.special)
            THEN MilestoneLoop(
                   add_log([s EXCEPT !.achievements.special = Append(@, name)],
                           t, <<"Achievement freigeschaltet", name>>),
                   t, total_tasks, i + 1)
            ELSE MilestoneLoop(s, t, total_tasks, i + 1)

check_special_achievements(s, t) ==
  MilestoneLoop(s, t, SumCounts(s.tasks.counts, Difficulties), 1)

\* xp awarded for a task: int(round(10 * multiplier [* 1.25]))
TaskXp(difficulty, hardcore) ==
  LET m == DIFF_MULTIPLIER[difficulty]
      num == IF hardcore THEN BASE_XP * m[1] * HARDCORE_GLOBAL_BONUS[1]
                         ELSE BASE_XP * m[1]
      den == IF hardcore THEN m[2] * HARDCORE_GLOBAL_BONUS[2] ELSE m[2]
  IN PyRound(num, den)

\* minutes awarded for a task: int(round(1 * multiplier))
TaskMinutes(difficulty) ==
  PyRound(DIFF_MULTIPLIER[difficulty][1], DIFF_MULTIPLIER[difficulty][2])

\* a task that is logged but not counted
CountAfter_skip(counts, difficulty) == counts

\* `state["tasks"]["counts"][difficulty] += 1`
CountAfter(counts, difficulty) == [counts EXCEPT ![difficulty] = @ + 1]

complete_task(s, title, difficulty, t) ==
  LET xp == TaskXp(difficulty, s.meta.hardcore)
      minutes_gain == TaskMinutes(difficulty)
      s1 == [s EXCEPT !.tasks.counts = CountAfter(@, difficulty),
                      !.tasks.log = Append(@, [ts |-> t, title |-> title,
                                               difficulty |-> difficulty,
                                               xp_gain |-> xp,
                                               minutes_gain |-> minutes_gain])]
      s2 == add_xp(s1, xp, t)
      s3 == [s2 EXCEPT !.player.minutes_bank = @ + minutes_gain]
      s4 == add_log(s3, t, <<"Task erledigt", title, difficulty, xp, minutes_gain>>)
  IN check_special_achievements(s4, t)


\* a check-in that never looks at the day of the previous one
AlreadyCheckedIn_never(last, today) == FALSE

\* `last == today`: a check-in was already made on this calendar day
AlreadyCheckedIn(last, today) == last = Some(today)

\* a streak that grows whenever there was a previous check-in
NextStreak_nogap(last, today, streak_days) ==
  IF last # None THEN streak_days + 1 ELSE 1

\* the streak after a successful check-in
NextStreak(last, today, streak_days) ==
  IF last # None
    THEN IF today - last[1] = 1 THEN streak_days + 1 ELSE 1
    ELSE 1

\* a bonus paid on every streak of three days or more
StreakBonusDue_atleast(streak_days) == streak_days >= 3

\* `streak_days in (3, 7, 14)`
StreakBonusDue(streak_days) == streak_days \in {3, 7, 14}

\* check_in: the new state and the returned flag
check_in(s, t) ==
  LET last == s.player.last_checkin
      today == today_str(t)
  IN IF AlreadyCheckedIn(last, today) THEN [st |-> s, ret |-> FALSE]
     ELSE
       LET streak == NextStreak(last, today, s.player.streak_days)
           s1 == [s EXCEPT !.player.streak_days = streak,
                           !.player.last_checkin = Some(today)]
           s2 == add_log(s1, t, <<"Daily Check-in", streak>>)
           s3 == IF StreakBonusDue(streak)
                   THEN add_log(
                          [add_xp(s2, STREAK_BONUS_XP, t)
                             EXCEPT !.player.minutes_bank = @ + STREAK_BONUS_MINUTES],
                          t, <<"Streak-Bonus", STREAK_BONUS_XP, STREAK_BONUS_MINUTES>>)
                   ELSE s2
       IN [st |-> s3, ret |-> TRUE]

\* respawn: state.clear(); state.update(DEFAULT_STATE.copy()) takes the
\* nested objects of the module-level dict d as they are at that moment
respawn(s, d, t) ==
  LET meta_keep == s.meta.version
      s1 == [d EXCEPT !.meta.version = meta_keep, !.meta.dead = FALSE]
  IN add_log(s1, t, <<"Respawn">>)

\* a quest that can be claimed over and over
QuestDone_never(marker, current) == FALSE

\* `q["done_on"] == today_str()`, `q["done_on_week"] == wk`
QuestDone(marker, current) == marker = Some(current)

claim_daily_quest(s, name, t) ==
  IF name \notin DOMAIN s.quests.daily THEN s
  ELSE LET q == s.quests.daily[name]
       IN IF QuestDone(q.done_on, today_str(t)) THEN s
          ELSE LET s1 == add_xp(s, q.xp, t)
                   s2 == [s1 EXCEPT !.player.minutes_bank = @ + q.minutes,
                                    !.quests.daily[name].done_on = Some(today_str(t))]
               IN add_log(s2, t, <<"Daily Quest abgeschlossen", name, q.xp, q.minutes>>)

claim_weekly_quest(s, name, t) ==
  IF name \notin DOMAIN s.quests.weekly THEN s
  ELSE LET q == s.quests.weekly[name]
           wk == week_id(t)
       IN IF QuestDone(q.done_on_week, wk) THEN s
          ELSE LET s1 == add_xp(s, q.xp, t)
                   s2 == [s1 EXCEPT !.player.minutes_bank = @ + q.minutes,
                                    !.quests.weekly[name].done_on_week = Some(wk)]
               IN add_log(s2, t, <<"Weekly Quest abgeschlossen", name, q.xp, q.minutes>>)

(***************************************************************************)
(* Session timer.                                                          *)
(***************************************************************************)
\* a session started without looking at the bank
InsufficientBank_unchecked(minutes_bank, minutes) == FALSE

\* `minutes_bank < minutes`
InsufficientBank(minutes_bank, minutes) == minutes_bank < minutes

start_session(s, minutes, t) ==
  IF s.timers.session_running \/ minutes <= 0 THEN s
  ELSE IF InsufficientBank(s.player.minutes_bank, minutes)
    THEN add_log(s, t, <<"Nicht genug Spielzeit im Konto">>)
    ELSE add_log([s EXCEPT !.player.minutes_bank = @ - minutes,
                           !.timers.session_target_minutes = minutes,
                           !.timers.session_start = Some(t),
                           !.timers.session_spent_seconds = 0,
                           !.timers.session_running = TRUE],
                 t, <<"Spielzeit gestartet", minutes>>)

\* unused minutes rounded up to the next whole minute
SessionCredit_roundup(target_minutes, spent) ==
  (Max(0, target_minutes * 60 - spent) + 59) \div 60

\* whole unused minutes of a session that has spent `spent` seconds
SessionCredit(target_minutes, spent) == Max(0, target_minutes * 60 - spent) \div 60

stop_session(s, t) ==
  IF ~s.timers.session_running THEN s
  ELSE LET spent == seconds_since(s.timers.session_start, t)
                      + s.timers.session_spent_seconds
           credit_min == SessionCredit(s.timers.session_target_minutes, spent)
           s1 == IF credit_min # 0
                   THEN [s EXCEPT !.player.minutes_bank = @ + credit_min]
                   ELSE s
       IN add_log([s1 EXCEPT !.timers.session_running = FALSE],
                  t, <<"Spielzeit gestoppt", credit_min>>)

pomodoro_remaining_seconds(s, t) ==
  IF ~s.timers.pomodoro_running THEN 0
  ELSE Max(0, s.timers.pomodoro_length * 60
                - seconds_since(s.timers.pomodoro_start, t)
                - s.timers.pomodoro_paused_seconds)

\* a start button that never looks at the running flag
PomodoroBusy_never(running) == FALSE

\* `if state["timers"]["pomodoro_running"]: return`
PomodoroBusy(running) == running

start_pomodoro(s, t) ==
  IF PomodoroBusy(s.timers.pomodoro_running) THEN s
  ELSE add_log([s EXCEPT !.timers.pomodoro_start = Some(t),
                         !.timers.pomodoro_paused_seconds = 0,
                         !.timers.pomodoro_running = TRUE],
               t, <<"Pomodoro gestartet", s.timers.pomodoro_length>>)

\* the running flag is cleared before the remaining time is asked for
stop_pomodoro(s, t) ==
  IF ~s.timers.pomodoro_running THEN s
  ELSE LET s1 == [s EXCEPT !.timers.pomodoro_running = FALSE]
           rem == pomodoro_remaining_seconds(s1, t)
           spent == Max(0, s1.timers.pomodoro_length * 60 - rem)
       IN add_log(s1, t, <<"Pomodoro gestoppt", spent \div 60, spent % 60>>)

(***************************************************************************)
(* Task titles are strings over a two-letter alphabet; str.strip() drops   *)
(* leading and trailing blanks.                                            *)
(***************************************************************************)
Titles == { << >>, <<" ">>, <<" ", "a">> }

RECURSIVE LStrip(_)
LStrip(w) == IF w # << >> /\ Head(w) = " " THEN LStrip(Tail(w)) ELSE w

RECURSIVE RStrip(_)
RStrip(w) ==
  IF w # << >> /\ w[Len(w)] = " " THEN RStrip(SubSeq(w, 1, Len(w) - 1)) ELSE w

\* a title taken as typed
Strip_asis(w) == w

Strip(w) == RStrip(LStrip(w))


(***************************************************************************)
(* Persistence: the content of a save file is missing, malformed or a      *)
(* document.                                                               *)
(***************************************************************************)
NoFile == [kind |-> "missing", doc |-> None]
Garbled == [kind |-> "malformed", doc |-> None]
FileDoc(s) == [kind |-> "doc", doc |-> s]

\* first start on a platform without a cloud folder: nothing on disk
NoFiles == [local |-> NoFile, cloud |-> NoFile, cloud_path |-> FALSE]

\* the state came from the local save file
LocalOnly(s) == [local |-> FileDoc(s), cloud |-> NoFile, cloud_path |-> FALSE]

\* None for a missing file and for one json.load rejects (the exception is
\* caught), else the parsed document
safe_read_json(file) == IF file.kind = "doc" THEN Some(file.doc) ELSE None

\* what a write leaves on disk: the document, the old content when the file
\* cannot be opened, a truncated file when the dump breaks off; the
\* exception is caught in both failures
WriteOutcomes == {"ok", "denied", "partial"}

safe_write_json(file, data, outcome) ==
  CASE outcome = "ok" -> FileDoc(data)
    [] outcome = "denied" -> file
    [] outcome = "partial" -> Garbled

\* the document returned and whether it is DEFAULT_STATE.copy(), whose
\* nested objects are those of the module-level literal d
load_state(f, d) ==
  LET cloud_first == IF f.cloud_path THEN safe_read_json(f.cloud) ELSE None
      local == safe_read_json(f.local)
  IN IF cloud_first # None THEN [doc |-> cloud_first[1], defaults |-> FALSE]
     ELSE IF local # None THEN [doc |-> local[1], defaults |-> FALSE]
     ELSE [doc |-> d, defaults |-> TRUE]

save_state(f, s, wl, wc) ==
  [f EXCEPT !.local = safe_write_json(@, s, wl),
            !.cloud = IF f.cloud_path THEN safe_write_json(@, s, wc) ELSE @]

\* header_section: the body of the hardcore button
activate_hardcore(s, t) ==
  add_log([s EXCEPT !.meta.hardcore = TRUE], t, <<"Hardcore-Modus aktiviert">>)

(***************************************************************************)
(* The running program.                                                    *)
(***************************************************************************)
\* a document written by an earlier release and found by load_state
SavedDoc ==
  [complete_task(DefaultState(0 - DAY), <<"a">>, "Noob", 0 - DAY)
     EXCEPT !.meta.version = OLD_VERSION]

\* the document of a player who banked a daily quest's minutes the day before
FundedDoc == claim_daily_quest(DefaultState(0 - DAY), "Deep Focus 60", 0 - DAY)

\* main(): state = load_state() -- the defaults (shallow copy, aliased) or a
\* parsed document (fresh objects)
InitDefaults ==
  /\ DEFAULT_STATE = DefaultState(0)
  /\ state = DEFAULT_STATE
  /\ shared = TRUE
  /\ files = NoFiles

InitLoaded ==
  /\ DEFAULT_STATE = DefaultState(0)
  /\ state = SavedDoc
  /\ shared = FALSE
  /\ files = LocalOnly(SavedDoc)

Init ==
  /\ now = 0
  /\ op = [name |-> "load_state", arg |-> None, ret |-> TRUE]
  /\ InitDefaults \/ InitLoaded

\* a mutation of the state dict reaches DEFAULT_STATE while they are aliased
Commit(s) ==
  /\ state' = s
  /\ DEFAULT_STATE' = IF shared THEN s ELSE DEFAULT_STATE
  /\ shared' = shared
  /\ now' = now
  /\ files' = files

\* the log lines of the document the session started from
LoadedLogs == IF files.local.kind = "doc" THEN Len(files.local.doc.logs) ELSE 0

\* at most MaxLogs new log lines are followed
LogRoom == Len(state.logs) < LoadedLogs + MaxLogs

\* tasks_section: a difficulty button pressed with `task` in the title field
CompleteTask ==
  \E task \in Titles, label \in Difficulties :
    /\ LogRoom
    /\ IF Strip(task) # << >>
         THEN /\ Commit(complete_task(state, Strip(task), label, now))
              /\ op' = [name |-> "complete_task", arg |-> <<task, label>>, ret |-> TRUE]
         ELSE /\ Commit(state)
              /\ op' = [name |-> "complete_task", arg |-> <<task, label>>, ret |-> FALSE]

CheckIn ==
  /\ LET r == check_in(state, now)
     IN /\ Commit(r.st)
        /\ op' = [name |-> "check_in", arg |-> None, ret |-> r.ret]

QuestInputs == DailyNames \cup WeeklyNames

ClaimDailyQuest ==
  \E name \in QuestInputs :
    /\ LogRoom
    /\ Commit(claim_daily_quest(state, name, now))
    /\ op' = [name |-> "claim_daily_quest", arg |-> name, ret |-> TRUE]

ClaimWeeklyQuest ==
  \E name \in QuestInputs :
    /\ LogRoom
    /\ Commit(claim_weekly_quest(state, name, now))
    /\ op' = [name |-> "claim_weekly_quest", arg |-> name, ret |-> TRUE]

\* header_section: the one-way hardcore button, offered while the flag is off
ActivateHardcore ==
  /\ LogRoom
  /\ ~state.meta.hardcore
  /\ Commit(activate_hardcore(state, now))
  /\ op' = [name |-> "hardcore", arg |-> None, ret |-> TRUE]

SessionMinutes == {0, 5, 15}

StartSession ==
  \E minutes \in SessionMinutes :
    /\ LogRoom
    /\ Commit(start_session(state, minutes, now))
    /\ op' = [name |-> "start_session", arg |-> minutes, ret |-> TRUE]

StopSession ==
  /\ LogRoom
  /\ Commit(stop_session(state, now))
  /\ op' = [name |-> "stop_session", arg |-> None, ret |-> TRUE]

\* the same bound for a handler that may leave the log as it is
LogFits(s) == Len(s.logs) <= LoadedLogs + MaxLogs

StartPomodoro ==
  /\ LogFits(start_pomodoro(state, now))
  /\ Commit(start_pomodoro(state, now))
  /\ op' = [name |-> "start_pomodoro", arg |-> None, ret |-> TRUE]

StopPomodoro ==
  /\ LogFits(stop_pomodoro(state, now))
  /\ Commit(stop_pomodoro(state, now))
  /\ op' = [name |-> "stop_pomodoro", arg |-> None, ret |-> TRUE]

Respawn ==
  /\ LogRoom
  /\ LET s == respawn(state, DEFAULT_STATE, now)
     IN /\ state' = s
        /\ DEFAULT_STATE' = s
        /\ shared' = TRUE
        /\ now' = now
        /\ files' = files
  /\ op' = [name |-> "respawn", arg |-> None, ret |-> TRUE]

\* the script is executed again: the module-level literal is rebuilt and the
\* state kept in the session no longer shares anything with it
ModuleExec ==
  /\ shared
  /\ DEFAULT_STATE' = DefaultState(now)
  /\ shared' = FALSE
  /\ UNCHANGED <<state, now, files>>
  /\ op' = [name |-> "module_exec", arg |-> None, ret |-> TRUE]

\* header_section: state.clear(); state.update(load_state()), then a log line
Reload ==
  /\ LogRoom
  /\ LET r == load_state(files, DEFAULT_STATE)
         s == add_log(r.doc, now, <<"Spielstand neu geladen">>)
     IN /\ state' = s
        /\ DEFAULT_STATE' = IF r.defaults THEN s ELSE DEFAULT_STATE
        /\ shared' = r.defaults
        /\ op' = [name |-> "reload", arg |-> None, ret |-> r.doc]
  /\ UNCHANGED <<now, files>>

\* only a short log is written to disk
SaveRoom == Len(state.logs) < MaxLogs

\* header_section: save_state(state), then a log line
Save ==
  \E wl \in WriteOutcomes, wc \in WriteOutcomes :
    /\ LogRoom
    /\ SaveRoom
    /\ files.cloud_path \/ wc = "ok"
    /\ files' = save_state(files, state, wl, wc)
    /\ LET s == add_log(state, now, <<"Spielstand gespeichert">>)
       IN /\ state' = s
          /\ DEFAULT_STATE' = IF shared THEN s ELSE DEFAULT_STATE
    /\ UNCHANGED <<shared, now>>
    /\ op' = [name |-> "save", arg |-> <<wl, wc>>, ret |-> TRUE]

SecondSteps == {59, 61, 240}

\* the wall clock advances within the day
Tick ==
  \E dt \in SecondSteps :
    /\ (now % DAY) + dt <= MaxSecs
    /\ now' = now + dt
    /\ UNCHANGED <<state, DEFAULT_STATE, shared, files>>
    /\ op' = [name |-> "tick", arg |-> dt, ret |-> TRUE]

\* the wall clock advances by whole days
NextDay ==
  \E n \in 1..MaxGap :
    /\ (now \div DAY) + n <= MaxDay
    /\ now' = now + n * DAY
    /\ UNCHANGED <<state, DEFAULT_STATE, shared, files>>
    /\ op' = [name |-> "next_day", arg |-> n, ret |-> TRUE]

Next ==
  \/ CompleteTask
  \/ CheckIn
  \/ ClaimDailyQuest
  \/ ActivateHardcore
  \/ StartSession
  \/ StopSession
  \/ Respawn
  \/ ModuleExec

Spec == Init /\ [][Next]_vars


(***************************************************************************)
(* The session timer against the clock.                                    *)
(***************************************************************************)
SessionNext ==
  \/ ClaimDailyQuest
  \/ StartSession
  \/ StopSession
  \/ Tick

SpecSession == Init /\ [][SessionNext]_vars

(***************************************************************************)
(* The save files.  At start-up each file is missing, malformed or holds a *)
(* document, and the state is what load_state makes of them.                *)
(***************************************************************************)
InitFiles ==
  /\ now = 0
  /\ op = [name |-> "load_state", arg |-> None, ret |-> TRUE]
  /\ DEFAULT_STATE = DefaultState(0)
  /\ \E local \in {NoFile, Garbled, FileDoc(SavedDoc)},
        cloud \in {NoFile, Garbled, FileDoc(FundedDoc)}, cloud_path \in BOOLEAN :
       /\ cloud_path \/ cloud = NoFile
       /\ files = [local |-> local, cloud |-> cloud, cloud_path |-> cloud_path]
  /\ state = load_state(files, DEFAULT_STATE).doc
  /\ shared = load_state(files, DEFAULT_STATE).defaults

FilesNext ==
  \/ ClaimDailyQuest
  \/ Save
  \/ Reload
  \/ ModuleExec

SpecFiles == InitFiles /\ [][FilesNext]_vars

(***************************************************************************)
(* Both timers against the clock.                                          *)
(***************************************************************************)
InitTimers ==
  /\ now = 0
  /\ op = [name |-> "load_state", arg |-> None, ret |-> TRUE]
  /\ DEFAULT_STATE = DefaultState(0)
  /\ shared = FALSE
  /\ state \in {FundedDoc, SavedDoc}
  /\ files = LocalOnly(state)

TimersNext ==
  \/ StartSession
  \/ StartPomodoro
  \/ StopPomodoro
  \/ Tick

SpecTimers == InitTimers /\ [][TimersNext]_vars

(***************************************************************************)
(* Long careers.  The documents found at start-up are those written after  *)
(* k tasks, just short of a task milestone or of a badge level.            *)
(***************************************************************************)
\* k more tasks of the hardest difficulty, completed in one sitting (a dead
\* player is shown no task buttons); the run is split in two halves
RECURSIVE GrindFrom(_, _)
GrindFrom(s, k) ==
  IF k = 0 \/ s.meta.dead THEN s
  ELSE IF k = 1 THEN complete_task(s, <<"a">>, "Hoellenfeuer", 0 - DAY)
  ELSE GrindFrom(GrindFrom(s, k \div 2), k - (k \div 2))

GrindDoc(k) == GrindFrom(DefaultState(0 - DAY), k)

\* 10, 25 and 50 tasks are milestones; the 15th task of 40 XP reaches
\* level 5 and the 66th level 10
GrindStarts == {0, 9, 14, 24, 49, 65}

InitGrind ==
  /\ now = 0
  /\ op = [name |-> "load_state", arg |-> None, ret |-> TRUE]
  /\ DEFAULT_STATE = DefaultState(0)
  /\ shared = FALSE
  /\ \E k \in GrindStarts : state = GrindDoc(k)
  /\ files = LocalOnly(state)

GrindNext ==
  \/ CompleteTask
  \/ ClaimDailyQuest
  \/ CheckIn

SpecGrind == InitGrind /\ [][GrindNext]_vars

(***************************************************************************)
(* Quests over the days and weeks.  The documents found at start-up are    *)
(* fresh or hold one daily and one weekly quest claimed `age` days ago;    *)
(* day 0 is the first day of a week.                                       *)
(***************************************************************************)
QuestDoc(age) ==
  LET t == (0 - age) * DAY
  IN claim_weekly_quest(
       claim_daily_quest(DefaultState(t), "Power-Up Workout", t), "NoPo Weekly", t)

QuestAges == {1, 8}

InitQuest ==
  /\ now = 0
  /\ op = [name |-> "load_state", arg |-> None, ret |-> TRUE]
  /\ DEFAULT_STATE = DefaultState(0)
  /\ shared = FALSE
  /\ state \in {DefaultState(0 - DAY)} \cup {QuestDoc(age) : age \in QuestAges}
  /\ files = LocalOnly(state)

QuestNext ==
  \/ ClaimDailyQuest
  \/ ClaimWeeklyQuest
  \/ NextDay

SpecQuest == InitQuest /\ [][QuestNext]_vars

(***************************************************************************)
(* Check-ins over the days.  The documents found at start-up are those     *)
(* written after earlier runs of daily check-ins.                          *)
(***************************************************************************)
\* k check-ins on the consecutive days first, first + 1, ...
RECURSIVE CheckInDays(_, _, _)
CheckInDays(s, first, k) ==
  IF k = 0 THEN s
  ELSE CheckInDays(check_in(s, first * DAY).st, first + 1, k - 1)

PriorRuns == {0, 3}

\* `prior` check-ins, a day without one, then n check-ins, the last of them
\* g days ago
StreakDoc(prior, n, g) ==
  LET b == 0 - g - n + 1
      a == b - 1 - prior
  IN CheckInDays(CheckInDays(DefaultState(a * DAY), a, prior), b, n)

InitStreak ==
  /\ now = 0
  /\ op = [name |-> "load_state", arg |-> None, ret |-> TRUE]
  /\ DEFAULT_STATE = DefaultState(0)
  /\ shared = FALSE
  /\ \E prior \in PriorRuns, n \in 0..MaxStreak, g \in 1..MaxGap, boost \in BOOLEAN :
       state = IF boost
                 THEN claim_weekly_quest(StreakDoc(prior, n, g), "Project Push",
                                         (0 - g) * DAY)
                 ELSE StreakDoc(prior, n, g)
  /\ files = LocalOnly(state)

StreakNext ==
  \/ CheckIn
  \/ NextDay

SpecStreak == InitStreak /\ [][StreakNext]_vars

(***************************************************************************)
(* add_xp on its own, from players of the first levels.                    *)
(***************************************************************************)
RECURSIVE ThresholdAt(_)
ThresholdAt(level) ==
  IF level <= 1 THEN XP_FOR_NEXT_DEFAULT ELSE CeilGrow(ThresholdAt(level - 1))

XpStarts == {0, 25, 99}
XpAmounts == {0 - 5, 0, 1, 75, 100, 250}

InitAddXp ==
  /\ now = 0
  /\ op = [name |-> "load_state", arg |-> None, ret |-> TRUE]
  /\ DEFAULT_STATE = DefaultState(0)
  /\ shared = FALSE
  /\ \E level \in 1..MaxXpLevel, xp \in XpStarts :
       state = [DefaultState(0) EXCEPT !.player.level = level,
                                       !.player.xp = xp,
                                       !.player.xp_for_next = ThresholdAt(level)]
  /\ files = LocalOnly(state)

AddXp ==
  \E amount \in XpAmounts :
    /\ LogRoom
    /\ Commit(add_xp(state, amount, now))
    /\ op' = [name |-> "add_xp", arg |-> amount, ret |-> TRUE]

AddXpNext == AddXp

SpecAddXp == InitAddXp /\ [][AddXpNext]_vars

(***************************************************************************)
(* The user interface.  Every interaction executes the script once: the    *)
(* module-level DEFAULT_STATE literal is rebuilt, then main() runs on the  *)
(* state kept in the session with at most one button reported as pressed.  *)
(***************************************************************************)
reset_if_game_over(s, t) ==
  IF t - s.meta.last_opened > GAME_OVER_DAYS * DAY
    THEN [s EXCEPT !.meta.dead = TRUE]
    ELSE s

\* a game-over screen that lets the rest of main() run
DeadGate_open(dead) == FALSE

\* `if state["meta"]["dead"]: ... return`
DeadGate(dead) == dead

\* a refresh that rebuilds the meta block around the version
touch_last_opened_rebuilt(s, t) ==
  [s EXCEPT !.meta = [DefaultState(t).meta EXCEPT !.version = s.meta.version]]

\* `state["meta"]["last_opened"] = datetime.utcnow().isoformat()`
touch_last_opened(s, t) == [s EXCEPT !.meta.last_opened = t]

\* the outcome of a run: the state, the module-level dict, whether they are
\* aliased, the files, and whether the pressed button was there to press
Outcome(s, d, f, ran) ==
  [state |-> s, defaults |-> d, shared |-> FALSE, files |-> f, ran |-> ran]

\* the state was taken from DEFAULT_STATE.copy() during this run
FromDefaults(s, f) ==
  [state |-> s, defaults |-> s, shared |-> TRUE, files |-> f, ran |-> TRUE]

\* the sections of main() for a living player, with button b pressed
sections(s, d, f, t, b) ==
  CASE b.kind = "hardcore" ->
         IF ~s.meta.hardcore THEN Outcome(activate_hardcore(s, t), d, f, TRUE)
         ELSE Outcome(s, d, f, FALSE)
    [] b.kind = "check_in" -> Outcome(check_in(s, t).st, d, f, TRUE)
    [] b.kind = "save" ->
         Outcome(add_log(s, t, <<"Spielstand gespeichert">>), d,
                 save_state(f, s, b.arg[1], b.arg[2]), TRUE)
    [] b.kind = "reload" ->
         LET r == load_state(f, d)
             s1 == add_log(r.doc, t, <<"Spielstand neu geladen">>)
         IN IF r.defaults THEN FromDefaults(s1, f) ELSE Outcome(s1, d, f, TRUE)
    [] b.kind = "respawn" -> FromDefaults(respawn(s, d, t), f)
    [] b.kind = "start_pomodoro" -> Outcome(start_pomodoro(s, t), d, f, TRUE)
    [] b.kind = "stop_pomodoro" -> Outcome(stop_pomodoro(s, t), d, f, TRUE)
    [] b.kind = "complete_task" ->
         IF Strip(b.arg[1]) # << >>
           THEN Outcome(complete_task(s, Strip(b.arg[1]), b.arg[2], t), d, f, TRUE)
           ELSE Outcome(s, d, f, FALSE)
    [] b.kind = "start_session" -> Outcome(start_session(s, b.arg, t), d, f, TRUE)
    [] b.kind = "stop_session" -> Outcome(stop_session(s, t), d, f, TRUE)
    [] b.kind = "claim_daily_quest" ->
         IF ~QuestDone(s.quests.daily[b.arg].done_on, today_str(t))
           THEN Outcome(claim_daily_quest(s, b.arg, t), d, f, TRUE)
           ELSE Outcome(s, d, f, FALSE)
    [] b.kind = "claim_weekly_quest" ->
         IF ~QuestDone(s.quests.weekly[b.arg].done_on_week, week_id(t))
           THEN Outcome(claim_weekly_quest(s, b.arg, t), d, f, TRUE)
           ELSE Outcome(s, d, f, FALSE)
    [] b.kind = "save_now" ->
         Outcome(s, d, save_state(f, s, b.arg[1], b.arg[2]), TRUE)
    [] OTHER -> Outcome(s, d, f, FALSE)

\* one execution of the script at time t
main(s, f, t, b) ==
  LET d == DefaultState(t)
      s0 == reset_if_game_over(s, t)
  IN IF DeadGate(s0.meta.dead)
       THEN IF b.kind = "respawn_now"
              THEN LET s1 == respawn(s0, d, t)
                   IN FromDefaults(s1, save_state(f, s1, b.arg[1], b.arg[2]))
              ELSE Outcome(s0, d, f, FALSE)
       ELSE sections(touch_last_opened(s0, t), d, f, t, b)

Button(kind, arg) == [kind |-> kind, arg |-> arg]

\* The page offers the buttons of the screen rendered by the previous run:
\* none before the first run, only "Respawn jetzt" on the game-over screen.
Offered(b) ==
  CASE op.name = "load_state" -> b.kind = "none"
    [] b.kind = "none" -> TRUE
    [] b.kind = "respawn_now" -> state.meta.dead
    [] OTHER -> ~state.meta.dead

\* `at` is the time the app was last opened (at start-up, the time recorded
\* in the document), `n` the number of steps so far
Run(b) ==
  LET r == main(state, files, now, b)
  IN /\ op.n < MaxRuns
     /\ Offered(b)
     /\ state' = r.state
     /\ DEFAULT_STATE' = r.defaults
     /\ shared' = r.shared
     /\ files' = r.files
     /\ now' = now
     /\ op' = [name |-> b.kind, arg |-> b.arg, ret |-> r.ran, at |-> now,
               n |-> op.n + 1]

\* a rerun without a button: the page is opened or a widget was touched
UiOpen == Run(Button("none", None))

UiHardcore == Run(Button("hardcore", None))

UiCheckIn == Run(Button("check_in", None))

UiWrites == {w \in WriteOutcomes \X WriteOutcomes : files.cloud_path \/ w[2] = "ok"}

UiSave == \E w \in UiWrites : Run(Button("save", w))

UiSaveNow == \E w \in UiWrites : Run(Button("save_now", w))

UiReload == Run(Button("reload", None))

UiRespawn == Run(Button("respawn", None))

UiRespawnNow == \E w \in UiWrites : Run(Button("respawn_now", w))

UiStartPomodoro == Run(Button("start_pomodoro", None))

UiStopPomodoro == Run(Button("stop_pomodoro", None))

UiTasks == {<<" ">>, <<" ", "a">>} \X {"Noob"}

UiCompleteTask == \E a \in UiTasks : Run(Button("complete_task", a))

\* number_input: 5 to 300 in steps of 5
UiMinutes == {5}

UiStartSession == \E minutes \in UiMinutes : Run(Button("start_session", minutes))

UiStopSession == Run(Button("stop_session", None))

UiClaimDaily == \E name \in DailyNames : Run(Button("claim_daily_quest", name))

UiClaimWeekly == \E name \in WeeklyNames : Run(Button("claim_weekly_quest", name))

\* the player stays away for a moment or for the full seven days; a session
\* begins with a run
AwaySteps == {1, GAME_OVER_DAYS * DAY}

Away ==
  \E dt \in AwaySteps :
    /\ op.name # "load_state"
    /\ op.n < MaxRuns
    /\ now' = now + dt
    /\ UNCHANGED <<state, DEFAULT_STATE, shared, files>>
    /\ op' = [name |-> "away", arg |-> dt, ret |-> TRUE, at |-> op.at,
              n |-> op.n + 1]

\* the save found at start-up: none, yesterday's, or one left eight days ago
InitUI ==
  /\ now = 0
  /\ DEFAULT_STATE = DefaultState(0)
  /\ files \in {NoFiles, LocalOnly(SavedDoc), LocalOnly(QuestDoc(8))}
  /\ state = load_state(files, DEFAULT_STATE).doc
  /\ shared = load_state(files, DEFAULT_STATE).defaults
  /\ op = [name |-> "load_state", arg |-> None, ret |-> TRUE,
           at |-> state.meta.last_opened, n |-> 0]

UiNext ==
  \/ UiOpen
  \/ UiHardcore
  \/ UiCheckIn
  \/ UiSave
  \/ UiSaveNow
  \/ UiReload
  \/ UiRespawn
  \/ UiRespawnNow
  \/ UiStartPomodoro
  \/ UiStopPomodoro
  \/ UiCompleteTask
  \/ UiStartSession
  \/ UiStopSession
  \/ UiClaimDaily
  \/ UiClaimWeekly
  \/ Away

SpecUI == InitUI /\ [][UiNext]_vars

(***************************************************************************)
(* Properties.                                                             *)
(***************************************************************************)
XpOps == {"complete_task", "check_in", "claim_daily_quest", "claim_weekly_quest"}

\* C1: in every reachable state 0 <= xp < xp_for_next and level >= 1
C1_XpBelowThreshold ==
  /\ 0 <= state.player.xp
  /\ state.player.xp < state.player.xp_for_next
  /\ state.player.level >= 1

\* an XP award has just carried the player over a threshold
C1_Witness ==
  /\ op.name \in XpOps
  /\ state.player.level >= 2
  /\ \E i \in 1..Len(state.logs) : state.logs[i].text[1] = "Level-Up"

AllPristine(s) ==
  /\ s.tasks.log = << >>
  /\ \A d \in Difficulties : s.tasks.counts[d] = 0
  /\ s.achievements.level_badges = << >>
  /\ s.achievements.special = << >>
  /\ \A q \in DailyNames : s.quests.daily[q].done_on = None
  /\ \A q \in WeeklyNames : s.quests.weekly[q].done_on_week = None
  /\ s.player.level = 1
  /\ s.player.xp = 0
  /\ s.player.xp_for_next = XP_FOR_NEXT_DEFAULT
  /\ s.player.minutes_bank = 0
  /\ s.player.streak_days = 0

\* C2: after respawn the task log, counters, achievements and quest markers
\* are cleared, the player is back at level 1 / xp 0 / threshold 100 /
\* bank 0 / streak 0, and the version is the one held before
C2_RespawnResets ==
  [][op'.name = "respawn" =>
       /\ AllPristine(state')
       /\ state'.meta.version = state.meta.version]_vars


LastLog(s) == s.logs[Len(s.logs)].text

\* C3 (amended): start_session(m) with m above the bank leaves minutes_bank
\* and every session field as they were, so the call starts no session
C3_RejectedStartKeepsSession ==
  [][(op'.name = "start_session" /\ op'.arg > state.player.minutes_bank) =>
       /\ state'.player.minutes_bank = state.player.minutes_bank
       /\ state'.timers = state.timers]_vars

\* C3 as stated: ... and no session is running afterwards
C3_Original ==
  [][(op'.name = "start_session" /\ op'.arg > state.player.minutes_bank) =>
       /\ state'.player.minutes_bank = state.player.minutes_bank
       /\ state'.timers = state.timers
       /\ ~state'.timers.session_running]_vars

\* a session request above the bank has just been turned down
C3_Witness ==
  /\ op.name = "start_session"
  /\ op.arg > state.player.minutes_bank
  /\ state.player.minutes_bank > 0
  /\ ~state.timers.session_running
  /\ Len(state.logs) > 0
  /\ LastLog(state) = <<"Nicht genug Spielzeit im Konto">>

Blank(w) == \A i \in 1..Len(w) : w[i] = " "

NoLogs(s) == [s EXCEPT !.logs = << >>]

\* C4 (amended): a blank task title leaves the whole state as it was; a
\* session request above the bank leaves everything but the text log as it
\* was, and the log gains at most the one warning line
C4_RejectedInputKeepsState ==
  [][/\ (op'.name = "complete_task" /\ Blank(op'.arg[1])) =>
          /\ state' = state
          /\ ~op'.ret
     /\ (op'.name = "start_session" /\ op'.arg > state.player.minutes_bank) =>
          /\ NoLogs(state') = NoLogs(state)
          /\ \/ state'.logs = state.logs
             \/ state'.logs = Append(state.logs,
                                     [ts |-> now,
                                      text |-> <<"Nicht genug Spielzeit im Konto">>])
          /\ ~state.timers.session_running => state'.logs # state.logs]_vars

\* C4 as stated: both rejected inputs leave the entire state as it was
C4_Original ==
  [][((op'.name = "complete_task" /\ Blank(op'.arg[1]))
       \/ (op'.name = "start_session" /\ op'.arg > state.player.minutes_bank))
      => state' = state]_vars

\* a whitespace-only title has just been turned down, after a session
\* request above the bank had been
C4_Witness ==
  /\ op.name = "complete_task"
  /\ op.arg[1] # << >>
  /\ ~op.ret
  /\ \E i \in 1..Len(state.logs) :
       state.logs[i].text = <<"Nicht genug Spielzeit im Konto">>

\* C5: stop_session on a running session credits floor(max(0, t*60 - e)/60)
\* minutes and clears session_running; without a running session it changes
\* nothing
C5_StopCreditsWholeMinutes ==
  [][op'.name = "stop_session" =>
       IF state.timers.session_running
         THEN LET e == (now - state.timers.session_start[1])
                         + state.timers.session_spent_seconds
                  rem == state.timers.session_target_minutes * 60 - e
                  credit == IF rem > 0 THEN rem \div 60 ELSE 0
              IN /\ state'.player.minutes_bank = state.player.minutes_bank + credit
                 /\ ~state'.timers.session_running
         ELSE state' = state]_vars

\* a session has just been stopped part-way with a partial minute dropped
C5_Witness ==
  /\ op.name = "stop_session"
  /\ ~state.timers.session_running
  /\ state.timers.session_start # None
  /\ (now - state.timers.session_start[1]) % 60 # 0
  /\ Len(state.logs) > 0
  /\ LastLog(state)[1] = "Spielzeit gestoppt"
  /\ LastLog(state)[2] > 0
  /\ LastLog(state)[2] < state.timers.session_target_minutes

CheckInLines(s) ==
  {i \in 1..Len(s.logs) : s.logs[i].text[1] = "Daily Check-in"}

BonusLines(s) ==
  {i \in 1..Len(s.logs) : s.logs[i].text[1] = "Streak-Bonus"}

OnePerDay(s, lines) ==
  \A i, j \in lines : i # j => s.logs[i].ts \div DAY # s.logs[j].ts \div DAY

\* C6: a check_in on a day that already has one returns False and changes
\* nothing; no calendar day has two successful check-ins or two bonuses
C6_SecondCheckInNoOp ==
  [][/\ (op'.name = "check_in"
          /\ state.player.last_checkin = Some(now \div DAY)) =>
          /\ ~op'.ret
          /\ state' = state
     /\ OnePerDay(state', CheckInLines(state'))
     /\ OnePerDay(state', BonusLines(state'))]_vars

\* a second check-in on the day of a successful one has just been refused
C6_Witness ==
  /\ op.name = "check_in"
  /\ ~op.ret
  /\ state.player.last_checkin = Some(now \div DAY)
  /\ \E i \in CheckInLines(state) : state.logs[i].ts = now

\* C7: a successful check_in on day d makes streak_days the previous value
\* plus one when last_checkin is day d-1, and 1 otherwise; last_checkin = d
C7_StreakStep ==
  [][(op'.name = "check_in" /\ op'.ret) =>
       LET d == now \div DAY
       IN /\ state'.player.streak_days =
               IF state.player.last_checkin = Some(d - 1)
                 THEN state.player.streak_days + 1
                 ELSE 1
          /\ state'.player.last_checkin = Some(d)]_vars

\* a streak has been reset by a gap and then grown again
C7_Witness ==
  /\ op.name = "check_in"
  /\ op.ret
  /\ state.player.streak_days = 2
  /\ \E i \in CheckInLines(state) :
       /\ i + 1 \in CheckInLines(state)
       /\ state.logs[i].text[2] > 2
       /\ state.logs[i + 1].text[2] = 1

\* ceiling of 1.25 * x, from its definition
Ceil125(x) == CHOOSE c \in 0..(2 * x + 1) : 4 * c >= 5 * x /\ 4 * (c - 1) < 5 * x

RECURSIVE IterCeil(_, _)
IterCeil(x, k) == IF k = 0 THEN x ELSE IterCeil(Ceil125(x), k - 1)

\* the sum of the k successive thresholds x, ceil(1.25 x), ...
RECURSIVE ThreshSum(_, _)
ThreshSum(x, k) == IF k = 0 THEN 0 ELSE x + ThreshSum(Ceil125(x), k - 1)

\* all the XP a player has been awarded since level 1
TotalXp(p) == p.xp + ThreshSum(XP_FOR_NEXT_DEFAULT, p.level - 1)

\* C8: a successful check_in pays +20 XP and +5 minutes exactly when the
\* resulting streak_days is 3, 7 or 14 (each time it is), nothing otherwise
C8_StreakBonus ==
  [][(op'.name = "check_in" /\ op'.ret) =>
       LET p == state.player
           q == state'.player
       IN IF q.streak_days \in {3, 7, 14}
            THEN /\ TotalXp(q) = TotalXp(p) + 20
                 /\ q.minutes_bank = p.minutes_bank + 5
                                       + LEVEL_MINUTES_BONUS * (q.level - p.level)
            ELSE /\ TotalXp(q) = TotalXp(p)
                 /\ q.level = p.level
                 /\ q.minutes_bank = p.minutes_bank]_vars

\* the streak has reached 3 for the second time and the bonus was paid again
C8_Witness ==
  /\ op.name = "check_in"
  /\ op.ret
  /\ state.player.streak_days = 3
  /\ Cardinality(BonusLines(state)) >= 2
  /\ LastLog(state)[1] = "Streak-Bonus"

\* C9: add_xp(G), G > 0, raises the level by the number k of successive
\* thresholds covered by xp + G and the bank by 5 * k; G <= 0 changes nothing
C9_LevelUps ==
  [][op'.name = "add_xp" =>
       LET p == state.player
           q == state'.player
           k == q.level - p.level
       IN IF op'.arg <= 0 THEN state' = state
          ELSE /\ k >= 0
               /\ ThreshSum(p.xp_for_next, k) <= p.xp + op'.arg
               /\ p.xp + op'.arg < ThreshSum(p.xp_for_next, k + 1)
               /\ q.minutes_bank = p.minutes_bank + LEVEL_MINUTES_BONUS * k]_vars

\* one award has just carried the player over two thresholds
C9_Witness ==
  /\ op.name = "add_xp"
  /\ op.arg > 0
  /\ state.player.level >= 4
  /\ Len(state.logs) > 0
  /\ \E i \in 1..Len(state.logs) : state.logs[i].text = <<"Level-Up", 2, 10>>

\* C10: every level-up replaces xp_for_next by ceil(1.25 * xp_for_next);
\* from level 1, xp 0, threshold 100, add_xp(250) ends at level 3, xp 25,
\* threshold ceil(156.25) = 157, ten more minutes in the bank
C10_ThresholdGrowth ==
  [][op'.name = "add_xp" =>
       LET p == state.player
           q == state'.player
       IN /\ q.xp_for_next = IterCeil(p.xp_for_next, q.level - p.level)
          /\ (op'.arg = 250 /\ p.level = 1 /\ p.xp = 0 /\ p.xp_for_next = 100) =>
               /\ q.level = 3
               /\ q.xp = 25
               /\ q.xp_for_next = 157
               /\ q.minutes_bank = p.minutes_bank + 10]_vars

\* add_xp(250) has just been applied to the level 1, xp 0 player
C10_Witness ==
  /\ op.name = "add_xp"
  /\ op.arg = 250
  /\ state.player.level = 3
  /\ state.player.xp = 25
  /\ state.player.xp_for_next = 157
  /\ Len(state.logs) = 1
  /\ LastLog(state) = <<"Level-Up", 2, 10>>


\* rounding to the nearest integer, halves up, of the fraction num/den
RoundHalfUp(num, den) == (2 * num + den) \div (2 * den)

LastTask(s) == s.tasks.log[Len(s.tasks.log)]

\* C11: complete_task records xp_gain = round(10 * multiplier * (1.25 if
\* hardcore)) and minutes_gain = round(multiplier), halves rounded up
\* (minutes 1, 2, 3, 4; XP 10, 15, 25, 40 and 13, 19, 31, 50 with hardcore),
\* and adds the same amounts to the player's XP and minutes_bank
C11_TaskGains ==
  [][(op'.name = "complete_task" /\ op'.ret) =>
       LET e == LastTask(state')
           m == DIFF_MULTIPLIER[e.difficulty]
           p == state.player
           q == state'.player
       IN /\ e.xp_gain = IF state.meta.hardcore
                           THEN RoundHalfUp(10 * m[1] * 5, m[2] * 4)
                           ELSE RoundHalfUp(10 * m[1], m[2])
          /\ e.minutes_gain = RoundHalfUp(m[1], m[2])
          /\ TotalXp(q) = TotalXp(p) + e.xp_gain
          /\ q.minutes_bank = p.minutes_bank + e.minutes_gain
                                + LEVEL_MINUTES_BONUS * (q.level - p.level)]_vars


\* C17: start_session while a session is running debits nothing and keeps
\* session_target_minutes and session_start; start_pomodoro while a pomodoro
\* is running keeps pomodoro_start and pomodoro_paused_seconds
C17_RunningTimersKept ==
  [][/\ (op'.name = "start_session" /\ state.timers.session_running) =>
          /\ state'.player.minutes_bank = state.player.minutes_bank
          /\ state'.timers.session_target_minutes = state.timers.session_target_minutes
          /\ state'.timers.session_start = state.timers.session_start
          /\ state'.timers.session_running
     /\ (op'.name = "start_pomodoro" /\ state.timers.pomodoro_running) =>
          /\ state'.timers.pomodoro_start = state.timers.pomodoro_start
          /\ state'.timers.pomodoro_paused_seconds = state.timers.pomodoro_paused_seconds
          /\ state'.timers.pomodoro_running]_vars

\* start_pomodoro was pressed again some time after the pomodoro was started,
\* while a paid session is running as well
C17_Witness ==
  /\ op.name = "start_pomodoro"
  /\ state.timers.pomodoro_running
  /\ state.timers.pomodoro_start # None
  /\ seconds_since(state.timers.pomodoro_start, now) > 0
  /\ state.timers.session_running
  /\ seconds_since(state.timers.session_start, now) > 0


CountTotal(counts) ==
  counts["Noob"] + counts["Normal"] + counts["Hardcore"] + counts["Hoellenfeuer"]

\* C19: every complete_task appends exactly one entry to tasks.log and adds
\* one to exactly one difficulty counter; no operation other than respawn or
\* a reload changes or removes an existing entry; in every state the length
\* of tasks.log is the sum of tasks.counts
C19_TaskLogAppendOnly ==
  /\ [](Len(state.tasks.log) = CountTotal(state.tasks.counts))
  /\ [][/\ (op'.name = "complete_task" /\ op'.ret) =>
             /\ state'.tasks.log = Append(state.tasks.log, LastTask(state'))
             /\ state'.tasks.counts =
                  [state.tasks.counts EXCEPT ![LastTask(state').difficulty] = @ + 1]
        /\ (op'.name \notin {"respawn", "reload"}) =>
             /\ Len(state'.tasks.log) >= Len(state.tasks.log)
             /\ SubSeq(state'.tasks.log, 1, Len(state.tasks.log)) = state.tasks.log
        /\ (op'.name # "complete_task" \/ ~op'.ret) =>
             Len(state'.tasks.log) <= Len(state.tasks.log)]_vars

\* a third task has just been logged, of another difficulty than the first
C19_Witness ==
  /\ op.name = "complete_task"
  /\ op.ret
  /\ Len(state.tasks.log) >= 3
  /\ state.tasks.log[1].difficulty # LastTask(state).difficulty
  /\ state.tasks.counts[LastTask(state).difficulty] >= 1


NoDuplicates(seq) == Cardinality(SeqToSet(seq)) = Len(seq)

PaidClaims(s) ==
  {i \in 1..Len(s.logs) :
     s.logs[i].text[1] \in {"Daily Quest abgeschlossen", "Weekly Quest abgeschlossen"}}

ClaimPeriod(line) ==
  IF line.text[1] = "Daily Quest abgeschlossen"
    THEN line.ts \div 86400
    ELSE (line.ts \div 86400) \div 7

\* what a paid claim of reward <<xp, minutes>> does to the player
Paid(p, q, xp, minutes) ==
  /\ TotalXp(q) = TotalXp(p) + xp
  /\ q.minutes_bank = p.minutes_bank + minutes
                        + LEVEL_MINUTES_BONUS * (q.level - p.level)

\* C14: a daily quest pays at most once per calendar day and a weekly quest
\* at most once per ISO week; a second claim in the same day / week changes
\* nothing, a claim on a later day / in a later week pays again, and a claim
\* of an unknown quest name changes nothing
C14_QuestOncePerPeriod ==
  /\ [](\A i, j \in PaidClaims(state) :
          (/\ i # j
           /\ state.logs[i].text[1] = state.logs[j].text[1]
           /\ state.logs[i].text[2] = state.logs[j].text[2])
            => ClaimPeriod(state.logs[i]) # ClaimPeriod(state.logs[j]))
  /\ [][/\ op'.name = "claim_daily_quest" =>
             IF op'.arg \notin {"Power-Up Workout", "Deep Focus 60"}
               THEN state' = state
             ELSE IF state.quests.daily[op'.arg].done_on = Some(now \div 86400)
               THEN state' = state
             ELSE /\ Paid(state.player, state'.player,
                          IF op'.arg = "Power-Up Workout" THEN 30 ELSE 40,
                          IF op'.arg = "Power-Up Workout" THEN 5 ELSE 10)
                  /\ state'.quests.daily[op'.arg].done_on = Some(now \div 86400)
        /\ op'.name = "claim_weekly_quest" =>
             IF op'.arg \notin {"NoPo Weekly", "Project Push"}
               THEN state' = state
             ELSE IF state.quests.weekly[op'.arg].done_on_week
                       = Some((now \div 86400) \div 7)
               THEN state' = state
             ELSE /\ Paid(state.player, state'.player,
                          IF op'.arg = "NoPo Weekly" THEN 60 ELSE 80,
                          IF op'.arg = "NoPo Weekly" THEN 15 ELSE 20)
                  /\ state'.quests.weekly[op'.arg].done_on_week
                       = Some((now \div 86400) \div 7)]_vars

\* the weekly quest, paid last week and again on the first day of this week,
\* is claimed once more a day later
C14_Witness ==
  /\ op.name = "claim_weekly_quest"
  /\ op.arg = "NoPo Weekly"
  /\ state.quests.weekly["NoPo Weekly"].done_on_week = Some(week_id(now))
  /\ \E i, j \in PaidClaims(state) :
       /\ i < j
       /\ state.logs[i].text[2] = "NoPo Weekly"
       /\ state.logs[j].text[2] = "NoPo Weekly"
       /\ today_str(state.logs[i].ts) + 1 = today_str(state.logs[j].ts)
       /\ today_str(state.logs[j].ts) < today_str(now)


\* the state load_state is said to return when no file can be used
PristineDefault(s) ==
  /\ s.player.level = 1
  /\ s.player.xp = 0
  /\ s.player.xp_for_next = 100
  /\ s.player.minutes_bank = 0
  /\ s.tasks.log = << >>
  /\ s.logs = << >>

\* C13: load_state returns the cloud document when the cloud path is
\* available and its file holds a well-formed document, else the local
\* document when that file holds one, else the pristine default state,
\* whatever was done before to a state obtained from the defaults
C13_LoadOrder ==
  [][op'.name = "reload" =>
       IF files.cloud_path /\ files.cloud.kind = "doc"
         THEN op'.ret = files.cloud.doc
       ELSE IF files.local.kind = "doc"
         THEN op'.ret = files.local.doc
       ELSE PristineDefault(op'.ret)]_vars


IsRun(o) == o.name \notin {"load_state", "away"}

Respawns == {"respawn", "respawn_now"}

\* C12: once meta.dead is true a run changes the state only through respawn,
\* which sets dead to false; a run that finds the player dead handles no
\* button and does not refresh last_opened
C12_DeadOnlyRespawn ==
  [][/\ (state.meta.dead /\ op'.name \notin Respawns) => state' = state
     /\ (state.meta.dead /\ op'.name \in Respawns) =>
          (op'.ret /\ ~state'.meta.dead)
     /\ (~state.meta.dead /\ state'.meta.dead) =>
          state' = [state EXCEPT !.meta.dead = TRUE]]_vars

\* a check-in pressed on a page rendered more than seven days ago was
\* ignored and the player is dead
C12_Witness ==
  /\ op.name = "check_in"
  /\ ~op.ret
  /\ state.meta.dead
  /\ state.player.last_checkin = None
  /\ now - state.meta.last_opened > 7 * 86400

C20_GameOverAfterSevenDays ==
  [][IsRun(op') =>
       /\ (~state.meta.dead /\ state'.meta.dead) =>
            now - state.meta.last_opened > 7 * 86400
       /\ ~state'.meta.dead => state'.meta.last_opened = now
       /\ (~state.meta.dead /\ now - op.at <= 7 * 86400) =>
            ~state'.meta.dead]_vars


\* C23: stop_pomodoro on a running pomodoro logs the time actually spent,
\* min(pomodoro_length * 60, seconds since the start + paused seconds), as
\* minutes and seconds
C23_StopReportsTimeSpent ==
  [][(op'.name = "stop_pomodoro" /\ state.timers.pomodoro_running) =>
       LET length == state.timers.pomodoro_length * 60
           elapsed == (now - state.timers.pomodoro_start[1])
                        + state.timers.pomodoro_paused_seconds
           spent == IF elapsed < length THEN elapsed ELSE length
       IN /\ ~state'.timers.pomodoro_running
          /\ LastLog(state') = <<"Pomodoro gestoppt", spent \div 60, spent % 60>>]_vars


\* C22: save followed by load round-trips: whenever the local write of
\* save_state(s) succeeds, the next load_state returns s, whatever became
\* of the cloud mirror write
C22_SaveLoadRoundTrip ==
  [][(op'.name = "save" /\ op'.arg[1] = "ok") =>
       load_state(files', DEFAULT_STATE').doc = state]_vars


\* what one step may do to the bank around a session: a start debits exactly
\* the minutes asked for and never more than the bank holds, a running
\* session keeps its target, and a stop credits between 0 and that target
SessionStep ==
  LET bank == state.player.minutes_bank
      bank2 == state'.player.minutes_bank
      tm == state.timers
      tm2 == state'.timers
  IN /\ now' >= now
     /\ (op'.name = "start_session" /\ ~tm.session_running /\ tm2.session_running) =>
          /\ op'.arg <= bank
          /\ bank2 = bank - op'.arg
          /\ tm2.session_target_minutes = op'.arg
          /\ tm2.session_start = Some(now)
     /\ (op'.name = "start_session" /\ ~tm2.session_running) => bank2 = bank
     /\ (tm.session_running /\ tm2.session_running) =>
          /\ tm2.session_target_minutes = tm.session_target_minutes
          /\ tm2.session_start = tm.session_start
          /\ bank2 >= bank
     /\ (op'.name = "stop_session" /\ tm.session_running) =>
          /\ ~tm2.session_running
          /\ bank2 >= bank
          /\ bank2 <= bank + tm.session_target_minutes
     /\ (op'.name = "stop_session" /\ ~tm.session_running) => bank2 = bank

\* C21: minutes_bank is a non-negative integer in every reachable state, and
\* sessions never create minutes: with a non-decreasing clock,
\* start_session(m) followed later by stop_session leaves minutes_bank
\* between (bank before start - m) and (bank before start), the credit on
\* stop never exceeding the m minutes debited on start
C21_SessionsCreateNoMinutes ==
  /\ [](state.player.minutes_bank \in Nat)
  /\ [][SessionStep]_vars

\* a session of m minutes has been stopped after the clock moved on, and
\* part of the m minutes debited at its start has come back to the bank
C21_Witness ==
  /\ op.name = "stop_session"
  /\ ~state.timers.session_running
  /\ state.timers.session_start # None
  /\ now > state.timers.session_start[1]
  /\ Len(state.logs) > 1
  /\ LastLog(state)[1] = "Spielzeit gestoppt"
  /\ LastLog(state)[2] \in 1..(state.timers.session_target_minutes - 1)
  /\ state.player.minutes_bank >= LastLog(state)[2]
  /\ \E i \in 1..(Len(state.logs) - 1) :
       state.logs[i].text = <<"Spielzeit gestartet", state.timers.session_target_minutes>>

====
